---- MODULE Spec2Model ----
(***************************************************************************)
(* mockem: the thread-local override store (src/src/store.rs), the         *)
(* dispatch protocol built on it (src/src/lib.rs) and the identity under   *)
(* which the two sides of an instrumented callable meet.                   *)
(***************************************************************************)
EXTENDS Integers, Sequences, FiniteSets, TLC

(***************************************************************************)
(* Bounds of the model.                                                    *)
(***************************************************************************)
\* overrides a thread's test code registers in one run
MaxMocks == 2
\* overrides the behaviours of a thread register on top of these
MaxNested == 1
\* overrides a test registers when none of its behaviours re-enters the library
FifoMocks == 3
\* calls test code makes in one run of consecutive operations on a callable
MaxCalls == 4
\* largest count handed to mock_repeat(Some(n), ..)
MaxRepeat == 2
\* overrides registered by test code whose behaviour re-enters the library
MaxReentrant == 1
\* the first three bounds again, for the run with two threads
MTMocks == 1
MTCalls == 2
MTRepeat == 1
MaxFutures == 2
MaxItems == 2
MaxAttrs == 2

Threads == {1, 2}
Args == {1, 2}

(***************************************************************************)
(* Types of the instrumented program. A type is a sequence of strings.     *)
(***************************************************************************)
String == <<"String">>
Str == <<"&str">>
NotFuture == <<"NotFuture">>
BoxFuture(T) == <<"BoxFuture">> \o T
\* the anonymous future an `async fn` returns: one type per function
AsyncFuture(path, T) == <<"impl Future", path>> \o T

IsFuture(ty) == ty[1] \in {"BoxFuture", "impl Future"}
FutureOutput(ty) == IF ty[1] = "BoxFuture" THEN Tail(ty) ELSE Tail(Tail(ty))

(***************************************************************************)
(* Declared callables: path (the function item, one per declaration and    *)
(* per generic instantiation), argument types, declared return type and    *)
(* whether it is an `async fn`.                                            *)
(***************************************************************************)
Fn(path, args, ret, async) == [path |-> path, args |-> args, ret |-> ret, async |-> async]

Items ==
  { Fn("foo", <<Str>>, String, FALSE),
    Fn("baz", <<Str>>, String, FALSE),
    Fn("trim", <<Str>>, Str, FALSE),
    Fn("<TypeA as Trait>::method", <<Str>>, String, FALSE),
    Fn("<TypeB as Trait>::method", <<Str>>, String, FALSE),
    Fn("gen::<u8>", <<<<"u8">>>>, <<"u8">>, FALSE),
    Fn("gen::<u16>", <<<<"u16">>>>, <<"u16">>, FALSE),
    Fn("afoo", <<Str>>, String, TRUE),
    Fn("boxed", <<Str>>, BoxFuture(String), FALSE) }

Item(path) == CHOOSE d \in Items : d.path = path

\* what calling the function item yields (F: Fn(..) -> FnOutput)
FnOutput(d) == IF d.async THEN AsyncFuture(d.path, d.ret) ELSE d.ret

(***************************************************************************)
(* CallMock<I, O, Fut> is implemented for F once with Fut = NotFuture for  *)
(* F: Fn(I) -> O, and once more for F: Fn(I) -> Fut, Fut: Future<Output=O>.*)
(***************************************************************************)
CallMockImpls(d) ==
  { [I |-> d.args, O |-> FnOutput(d), Fut |-> NotFuture] }
  \cup (IF IsFuture(FnOutput(d))
          THEN { [I |-> d.args, O |-> FutureOutput(FnOutput(d)), Fut |-> FnOutput(d)] }
          ELSE {})

\* TypeId of the closure inside get_mock_id: one closure type per (Self, I, O, Fut)
get_mock_id(d, impl) == [Self |-> d.path, I |-> impl.I, O |-> impl.O, Fut |-> impl.Fut]

\* the prologue pins O with PhantomData::<declared return type>
PrologueImpls(d) == { i \in CallMockImpls(d) : i.O = d.ret }
prologue_id(d) == get_mock_id(d, CHOOSE i \in PrologueImpls(d) : TRUE)

\* mock_once / mock_repeat pin O with the return type of the closure W
MockCallImpls(d, wret) == { i \in CallMockImpls(d) : i.O = wret }
mock_call_id(d, wret) == get_mock_id(d, CHOOSE i \in MockCallImpls(d, wret) : TRUE)

\* closure return types for which f.mock_once(w) type-checks
ClosureRets(d) == { i.O : i \in CallMockImpls(d) }

(***************************************************************************)
(* Option<usize>                                                           *)
(***************************************************************************)
None == <<>>
Some(n) == <<n>>
IsSome(o) == Len(o) = 1

(***************************************************************************)
(* MockStore: RefCell<HashMap<TypeId, VecDeque<MockReturn>>>.              *)
(* A cell is [m |-> the map, b |-> the RefCell's borrow flag]; an          *)
(* operation returns the cell after it, its result and whether the borrow  *)
(* failed (a panic with "already borrowed").                               *)
(***************************************************************************)
EmptyMap == [k \in {} |-> <<>>]
EmptyCell == [m |-> EmptyMap, b |-> 0]

Result(cell, ret, err) == [cell |-> cell, ret |-> ret, err |-> err]

\* add with push_front in place of push_back
store_add_front(c, id, value) ==
  IF c.b # 0 THEN Result(c, None, TRUE)
  ELSE IF id \in DOMAIN c.m
    THEN Result([c EXCEPT !.m[id] = <<value>> \o @], None, FALSE)
    ELSE Result([c EXCEPT !.m = [k \in DOMAIN c.m \cup {id} |->
                                   IF k = id THEN <<value>> ELSE c.m[k]]], None, FALSE)

\* add that returns from the present-key branch without push_back
store_add_lost(c, id, value) ==
  IF c.b # 0 THEN Result(c, None, TRUE)
  ELSE IF id \in DOMAIN c.m
    THEN Result(c, None, FALSE)
    ELSE Result([c EXCEPT !.m = [k \in DOMAIN c.m \cup {id} |->
                                   IF k = id THEN <<value>> ELSE c.m[k]]], None, FALSE)

store_add(c, id, value) ==
  IF c.b # 0 THEN Result(c, None, TRUE)
  ELSE IF id \in DOMAIN c.m
    THEN Result([c EXCEPT !.m[id] = Append(@, value)], None, FALSE)
    ELSE Result([c EXCEPT !.m = [k \in DOMAIN c.m \cup {id} |->
                                   IF k = id THEN <<value>> ELSE c.m[k]]], None, FALSE)

\* mock_exists as contains_key, without the is_empty test
store_mock_exists_key(c, id) ==
  IF c.b < 0 THEN Result(c, FALSE, TRUE)
  ELSE Result(c, id \in DOMAIN c.m, FALSE)

store_mock_exists(c, id) ==
  IF c.b < 0 THEN Result(c, FALSE, TRUE)
  ELSE Result(c, IF id \in DOMAIN c.m THEN c.m[id] # <<>> ELSE FALSE, FALSE)

\* get with pop_back in place of pop_front
store_get_back(c, id) ==
  IF c.b # 0 THEN Result(c, None, TRUE)
  ELSE IF id \in DOMAIN c.m /\ c.m[id] # <<>>
    THEN Result([c EXCEPT !.m[id] = SubSeq(@, 1, Len(@) - 1)],
                Some(c.m[id][Len(c.m[id])]), FALSE)
    ELSE Result(c, None, FALSE)

\* get with front().cloned(): the entry stays queued
store_get_peek(c, id) ==
  IF c.b # 0 THEN Result(c, None, TRUE)
  ELSE IF id \in DOMAIN c.m /\ c.m[id] # <<>>
    THEN Result(c, Some(Head(c.m[id])), FALSE)
    ELSE Result(c, None, FALSE)

store_get(c, id) ==
  IF c.b # 0 THEN Result(c, None, TRUE)
  ELSE IF id \in DOMAIN c.m /\ c.m[id] # <<>>
    THEN Result([c EXCEPT !.m[id] = Tail(@)], Some(Head(c.m[id])), FALSE)
    ELSE Result(c, None, FALSE)

\* remove that clears the whole map
store_remove_all(c, id) ==
  IF c.b # 0 THEN Result(c, None, TRUE)
  ELSE Result([c EXCEPT !.m = EmptyMap], None, FALSE)

\* remove that drops only the head entry of the queue
store_remove_front(c, id) ==
  IF c.b # 0 THEN Result(c, None, TRUE)
  ELSE IF id \in DOMAIN c.m /\ c.m[id] # <<>>
    THEN Result([c EXCEPT !.m[id] = Tail(@)], None, FALSE)
    ELSE Result(c, None, FALSE)

store_remove(c, id) ==
  IF c.b # 0 THEN Result(c, None, TRUE)
  ELSE Result([c EXCEPT !.m = [k \in DOMAIN c.m \ {id} |-> c.m[k]]], None, FALSE)

store_clear(c) ==
  IF c.b # 0 THEN Result(c, None, TRUE)
  ELSE Result([c EXCEPT !.m = EmptyMap], None, FALSE)

(***************************************************************************)
(* MockReturn(Rc<Box<dyn FnMut>>, Option<usize>). The closure is           *)
(* [uid |-> the instance, kind |-> what it does while it runs, f |-> the   *)
(* callable its code refers to, O |-> its return type, c |-> the variable  *)
(* it captured by move].                                                   *)
(***************************************************************************)
MockReturn(with, repeat) == [with |-> with, repeat |-> repeat]

\* `let mut c = 4;` moved into the closure
CapturedInit == 4

Closure(uid, kind, f, O) ==
  [uid |-> uid, kind |-> kind, f |-> f, O |-> O, c |-> CapturedInit]

\* the closure's own statements: if c > 0 { c -= 1; }
count(with) == [with EXCEPT !.c = IF @ > 0 THEN @ - 1 ELSE @]

NoUid == <<0, 0>>
NoEntry == MockReturn(Closure(NoUid, "none", "", String), None)

\* what a behaviour does before it returns its value
Kinds == {"plain", "refill", "repeat", "clear", "clear_all", "call"}
\* the kinds that touch the store or call back into an instrumented callable
Reentrant == Kinds \ {"plain"}

(***************************************************************************)
(* Values returned by an instrumented callable.                            *)
(***************************************************************************)
NoRet == [tag |-> "none", f |-> "", uid |-> NoUid, arg |-> 0]
\* the original statements of the body
original(d, a) == [tag |-> "orig", f |-> d.path, uid |-> NoUid, arg |-> a]
\* boxed(args): the value the override behaviour produces
boxed(with, a) == [tag |-> "mock", f |-> with.f, uid |-> with.uid, arg |-> a]

(***************************************************************************)
(* The runtime API of lib.rs over one thread's cell.                       *)
(***************************************************************************)
mock_repeat(c, d, repeat, with) ==
  store_add(c, mock_call_id(d, with.O), MockReturn(with, repeat))

\* mock_once that hands Some(2) to mock_repeat
mock_once_twice(c, d, with) == mock_repeat(c, d, Some(2), with)

mock_once(c, d, with) == mock_repeat(c, d, Some(1), with)

\* <F as ClearMocks<I, O, Fut>>::clear_mocks
ClearMocks_clear_mocks(c, d, impl) == store_remove(c, get_mock_id(d, impl))

\* the free function clear_mocks()
clear_mocks(c) == store_clear(c)

\* CallMock::mock_exists
mock_exists(c, id) == store_mock_exists(c, id)

\* the tail with `repeat > 0` in place of `repeat > 1`
call_mock_tail_ge(c, id, e) ==
  IF IsSome(e.repeat)
    THEN IF e.repeat[1] > 0
           THEN store_add(c, id, MockReturn(e.with, Some(e.repeat[1] - 1)))
           ELSE Result(c, None, FALSE)
    ELSE store_add(c, id, MockReturn(e.with, None))

\* the tail without the else branch: an unlimited entry is not re-inserted
call_mock_tail_drop(c, id, e) ==
  IF IsSome(e.repeat)
    THEN IF e.repeat[1] > 1
           THEN store_add(c, id, MockReturn(e.with, Some(e.repeat[1] - 1)))
           ELSE Result(c, None, FALSE)
    ELSE Result(c, None, FALSE)

\* the tail re-inserting a copy of the closure taken before it ran
call_mock_tail_fresh(c, id, e) ==
  LET fresh == [e.with EXCEPT !.c = CapturedInit]
  IN IF IsSome(e.repeat)
       THEN IF e.repeat[1] > 1
              THEN store_add(c, id, MockReturn(fresh, Some(e.repeat[1] - 1)))
              ELSE Result(c, None, FALSE)
       ELSE store_add(c, id, MockReturn(fresh, None))

\* call_mock after boxed(..) has returned: the entry goes back to the tail
\* while uses remain
call_mock_tail(c, id, e) ==
  IF IsSome(e.repeat)
    THEN IF e.repeat[1] > 1
           THEN store_add(c, id, MockReturn(e.with, Some(e.repeat[1] - 1)))
           ELSE Result(c, None, FALSE)
    ELSE store_add(c, id, MockReturn(e.with, None))

(***************************************************************************)
(* The #[mock] attribute macro (derive/src/parse.rs). An annotated unit is *)
(* what the programmer wrote below #[mock]:                                *)
(*   [kind |-> "fn" | "impl" | "trait", attrs |-> the outer attributes in  *)
(*    order, vis, unsafety, trait_ |-> the trait an impl block implements, *)
(*    ident, sig and stmts of a free function, items of an impl block or a *)
(*    trait definition].                                                   *)
(***************************************************************************)
\* syn::Visibility
Inherited == [tag |-> "Inherited", paren |-> ""]
Public == [tag |-> "Public", paren |-> ""]
Restricted(paren) == [tag |-> "Restricted", paren |-> paren]

\* the tokens a visibility is written with
Visibility_tokens(v) ==
  CASE v.tag = "Inherited" -> <<>>
    [] v.tag = "Public" -> <<"pub">>
    [] v.tag = "Restricted" -> <<"pub", v.paren>>

\* syn::GenericParam: a lifetime 'a is Lifetime { apostrophe, ident: a }
GenericParam(kind, ident) == [kind |-> kind, ident |-> ident]

\* a generic argument as written between ::< and >
GenericArg(apostrophe, ident) == [apostrophe |-> apostrophe, ident |-> ident]

\* syn::FnArg
Receiver == [tag |-> "Receiver", pat |-> "self"]
Typed(pat) == [tag |-> "Typed", pat |-> pat]

\* syn::Signature; output is None for ReturnType::Default, Some(ty) otherwise
Signature(ident, generics, inputs, output) ==
  [ident |-> ident, generics |-> generics, inputs |-> inputs, output |-> output]

\* statements of a body: the programmer's, and the block the macro inserts:
\*   { use mockem::CallMock;
\*     if self_type :: name generics .mock_exists(PhantomData::<ret>) {
\*         return self_type :: name generics .call_mock((args,));
\*     } }
Original(text) ==
  [tag |-> "original", text |-> text, self_type |-> <<>>, name |-> "",
   generics |-> <<>>, ret |-> "", args |-> <<>>]

Prologue(self_type, name, generics, ret, args) ==
  [tag |-> "prologue", text |-> "", self_type |-> self_type, name |-> name,
   generics |-> generics, ret |-> ret, args |-> args]

\* ImplItem / TraitItem: a method (default: it has a body) or another item
NoSig == Signature("", <<>>, <<>>, None)
ItemMethod(sig, default, stmts) ==
  [tag |-> "Fn", sig |-> sig, default |-> default, stmts |-> stmts]
ItemConst(ident) ==
  [tag |-> "Const", sig |-> Signature(ident, <<>>, <<>>, None), default |-> FALSE,
   stmts |-> <<>>]

Unit(kind, attrs, vis, unsafety, trait_, ident, sig, stmts, items) ==
  [kind |-> kind, attrs |-> attrs, vis |-> vis, unsafety |-> unsafety,
   trait_ |-> trait_, ident |-> ident, sig |-> sig, stmts |-> stmts, items |-> items]

NoUnit == Unit("", <<>>, Inherited, FALSE, None, "", NoSig, <<>>, <<>>)

\* the keyword an item of this kind starts with
Keyword(kind) == kind

\* the token stream below #[mock], after the outer attributes
Tokens(u) ==
  Visibility_tokens(u.vis) \o (IF u.unsafety THEN <<"unsafe">> ELSE <<>>)
    \o <<Keyword(u.kind)>>

\* Result<Item>: the rule that was applied, and the item or the token the
\* parser expected and did not find
Ok(rule, item) == [ok |-> TRUE, rule |-> rule, item |-> item, err |-> ""]
Err(rule, err) == [ok |-> FALSE, rule |-> rule, item |-> NoUnit, err |-> err]

\* input.parse::<ItemFn / ItemImpl / ItemTrait>() with the outer attributes
\* already taken from the stream
Item_parse_as(kind, u) ==
  IF u.kind = kind THEN Ok(kind, [u EXCEPT !.attrs = <<>>])
                   ELSE Err(kind, Keyword(kind))

\* sig.inputs.iter().map(..): the pattern of a typed argument, self otherwise
args_of(inputs) ==
  [k \in DOMAIN inputs |-> IF inputs[k].tag = "Typed" THEN inputs[k].pat ELSE "self"]

\* the declared return type, () when there is none
ret_of(output) == IF IsSome(output) THEN output[1] ELSE "()"

\* sig.generics.params.iter().map(..): the ident of each parameter
generics_of(params) ==
  [k \in DOMAIN params |-> GenericArg(FALSE, params[k].ident)]

\* the body with the prologue appended after the original statements
inject_stmts_appended(stmts, stms) == stmts \o <<stms>>

\* swap(&mut block.stmts, &mut stms); block.stmts.extend(stms)
inject_stmts(stmts, stms) == <<stms>> \o stmts

inject_impl(u, attrs) ==
  LET p == Item_parse_as("impl", u)
  IN IF ~p.ok THEN p
     ELSE
       LET item == [p.item EXCEPT !.attrs = attrs]
           trait_name == item.trait_
           self_type == IF IsSome(trait_name)
                          THEN <<"<", "Self", "as", trait_name[1], ">">>
                          ELSE <<"Self">>
           method(m) ==
             IF m.tag = "Fn"
               THEN [m EXCEPT !.stmts =
                       inject_stmts(@, Prologue(self_type, m.sig.ident,
                                                generics_of(m.sig.generics),
                                                ret_of(m.sig.output),
                                                args_of(m.sig.inputs)))]
               ELSE m
       IN Ok("impl", [item EXCEPT !.items = [k \in DOMAIN @ |-> method(@[k])]])

inject_trait(u, pub_token, attrs) ==
  LET p == Item_parse_as("trait", u)
  IN IF ~p.ok THEN p
     ELSE
       LET item0 == [p.item EXCEPT !.attrs = attrs]
           item == IF IsSome(pub_token) THEN [item0 EXCEPT !.vis = Public] ELSE item0
           trait_name == item.ident
           self_type == <<"<", "Self", "as", trait_name, ">">>
           method(m) ==
             IF m.tag = "Fn" /\ m.default
               THEN [m EXCEPT !.stmts =
                       inject_stmts(@, Prologue(self_type, m.sig.ident,
                                                generics_of(m.sig.generics),
                                                ret_of(m.sig.output),
                                                args_of(m.sig.inputs)))]
               ELSE m
       IN Ok("trait", [item EXCEPT !.items = [k \in DOMAIN @ |-> method(@[k])]])

inject_fn(u, pub_token, attrs) ==
  LET p == Item_parse_as("fn", u)
  IN IF ~p.ok THEN p
     ELSE
       LET item0 == [p.item EXCEPT !.attrs = attrs]
           item == IF IsSome(pub_token) THEN [item0 EXCEPT !.vis = Public] ELSE item0
           name == item.sig.ident
       IN Ok("fn", [item EXCEPT !.stmts =
                      inject_stmts(@, Prologue(<<>>, name, <<>>,
                                               ret_of(item.sig.output),
                                               args_of(item.sig.inputs)))])

\* impl Parse for Item
Item_parse(u) ==
  LET attrs == u.attrs
      input == Tokens(u)
      unsafe == input[1] = "unsafe"
      lookahead1 == IF unsafe THEN input[2] ELSE input[1]
      pub == lookahead1 = "pub"
      lookahead == IF pub THEN input[2] ELSE lookahead1
      pub_token == IF pub THEN Some("pub") ELSE None
  IN IF pub /\ input[1] # "pub" THEN Err("", "pub")
     ELSE IF lookahead = "impl" THEN inject_impl(u, attrs)
     ELSE IF lookahead = "trait" THEN inject_trait(u, pub_token, attrs)
     ELSE inject_fn(u, pub_token, attrs)

\* #[proc_macro_attribute] pub fn mock: parse_macro_input!, then to_token_stream
mock(u) == Item_parse(u)

NoExpansion == [input |-> NoUnit, output |-> Err("", "")]

(***************************************************************************)
(* State.                                                                  *)
(***************************************************************************)
VARIABLES
  MOCK_STORE,  \* thread -> cell: the thread_local MockStore
  stack,       \* thread -> frames of instrumented calls in progress, innermost first
  made,        \* thread -> closures created so far
  nre,         \* thread -> re-entrant overrides registered by test code so far
  ret,         \* thread -> value the call that has just completed returned
  panicked,    \* thread -> "no", or the panic that ended the thread
  sc,          \* thread -> the run of consecutive test-code operations on one callable
  idsel,       \* identity resolution: the references under comparison
  futs,        \* thread -> the suspensions its test code has created, in order
  expansion    \* the last expansion of #[mock]: the annotated unit and what it became

vars == <<MOCK_STORE, stack, made, nre, ret, panicked, sc, idsel, futs, expansion>>

\* a plain static: every thread resolves to the same instance
thread_local_shared(t) == 1

\* thread_local!: every access resolves to the calling thread's own instance
thread_local(t) == t

Cell(t) == MOCK_STORE[thread_local(t)]

Frame(f, a, pc, e) == [f |-> f, arg |-> a, pc |-> pc, e |-> e]

InTest(t) == stack[t] = <<>> /\ panicked[t] = "no"
Running(t) == stack[t] # <<>> /\ panicked[t] = "no"
Top(t) == Head(stack[t])

\* the queue the store holds for an identity
Queue(c, id) == IF id \in DOMAIN c.m THEN c.m[id] ELSE <<>>

(***************************************************************************)
(* The run of test-code operations since a registration on an empty queue: *)
(* registrations, then calls, then at most one clear, then calls.          *)
(***************************************************************************)
NoScenario ==
  [ok |-> FALSE, f |-> "", adds |-> <<>>, calls |-> <<>>, cleared |-> "no", after |-> <<>>]

ScAdd(s, wasEmpty, f, a) ==
  IF wasEmpty
    THEN [ok |-> TRUE, f |-> f, adds |-> <<a>>, calls |-> <<>>, cleared |-> "no", after |-> <<>>]
    ELSE IF s.ok /\ s.f = f /\ s.calls = <<>> /\ s.cleared = "no"
      THEN [s EXCEPT !.adds = Append(@, a)]
      ELSE NoScenario

ScCall(s, f, uid) ==
  IF s.ok /\ s.f = f
    THEN IF s.cleared = "no" THEN [s EXCEPT !.calls = Append(@, uid)]
                             ELSE [s EXCEPT !.after = Append(@, uid)]
    ELSE NoScenario

ScClear(s, f, how) ==
  IF s.ok /\ s.cleared = "no" /\ (how = "all" \/ s.f = f)
    THEN [s EXCEPT !.cleared = how]
    ELSE NoScenario

(***************************************************************************)
(* Limits of a run: the callables, behaviours and counts its test code     *)
(* draws from.                                                             *)
(***************************************************************************)
Repeats(n) == {None} \cup { Some(k) : k \in 0..n }

SeqLim == [fns |-> {"foo", "baz"}, kinds |-> Kinds, repeats |-> Repeats(MaxRepeat),
           mocks |-> MaxMocks, nested |-> MaxNested, calls |-> MaxCalls,
           reentrant |-> MaxReentrant]

FifoLim == [fns |-> {"foo", "baz"}, kinds |-> {"plain"}, repeats |-> Repeats(MaxRepeat),
            mocks |-> FifoMocks, nested |-> 0, calls |-> MaxCalls, reentrant |-> 0]

MTLim == [fns |-> {"foo"}, kinds |-> {"plain", "clear_all"}, repeats |-> Repeats(MTRepeat),
          mocks |-> MTMocks, nested |-> 0, calls |-> MTCalls, reentrant |-> MTMocks]

NoId == [Self |-> "", I |-> <<>>, O |-> <<>>, Fut |-> <<>>]
NoSel == [phase |-> "none", f |-> "", g |-> "", mock |-> NoId, clear |-> NoId,
          exists |-> NoId, call |-> NoId, other |-> NoId]

Init ==
  /\ MOCK_STORE = [t \in Threads |-> EmptyCell]
  /\ stack = [t \in Threads |-> <<>>]
  /\ made = [t \in Threads |-> 0]
  /\ nre = [t \in Threads |-> 0]
  /\ ret = [t \in Threads |-> NoRet]
  /\ panicked = [t \in Threads |-> "no"]
  /\ sc = [t \in Threads |-> NoScenario]
  /\ idsel = NoSel
  /\ futs = [t \in Threads |-> <<>>]
  /\ expansion = NoExpansion

\* the store operation r was made by thread t
Stored(t, r) ==
  /\ MOCK_STORE' = [MOCK_STORE EXCEPT ![thread_local(t)] = r.cell]
  /\ panicked' = [panicked EXCEPT ![t] = IF r.err THEN "already borrowed" ELSE @]

(***************************************************************************)
(* Test code registers an override: f.mock_repeat(repeat, closure) and     *)
(* f.mock_once(closure).                                                   *)
(***************************************************************************)
Register(t, L, f, repeat, kind, once) ==
  /\ InTest(t)
  /\ made[t] < L.mocks
  /\ kind \in Reentrant => nre[t] < L.reentrant
  /\ LET d == Item(f)
         uid == <<t, made[t] + 1>>
     IN \E O \in ClosureRets(d) :
          LET with == Closure(uid, kind, f, O)
              r == IF once THEN mock_once(Cell(t), d, with)
                           ELSE mock_repeat(Cell(t), d, repeat, with)
          IN /\ Stored(t, r)
             /\ sc' = [sc EXCEPT ![t] =
                         ScAdd(@, Queue(Cell(t), mock_call_id(d, O)) = <<>>, f,
                               [uid |-> uid, repeat |-> repeat, kind |-> kind])]
  /\ made' = [made EXCEPT ![t] = @ + 1]
  /\ nre' = [nre EXCEPT ![t] = IF kind \in Reentrant THEN @ + 1 ELSE @]
  /\ ret' = [ret EXCEPT ![t] = NoRet]
  /\ UNCHANGED <<stack, idsel, futs, expansion>>

MockRepeat(t, L) ==
  \E f \in L.fns, repeat \in L.repeats, kind \in L.kinds :
    Register(t, L, f, repeat, kind, FALSE)

MockOnce(t, L) ==
  \E f \in L.fns, kind \in L.kinds :
    Register(t, L, f, Some(1), kind, TRUE)

(***************************************************************************)
(* Test code clears: f.clear_mocks() and mockem::clear_mocks().            *)
(***************************************************************************)
ClearOf(t, f) ==
  /\ InTest(t)
  /\ \E impl \in CallMockImpls(Item(f)) :
       Stored(t, ClearMocks_clear_mocks(Cell(t), Item(f), impl))
  /\ sc' = [sc EXCEPT ![t] = ScClear(@, f, "id")]
  /\ ret' = [ret EXCEPT ![t] = NoRet]
  /\ UNCHANGED <<stack, made, nre, idsel, futs, expansion>>

ClearMocks(t, L) == \E f \in L.fns : ClearOf(t, f)

ClearAll(t) ==
  /\ InTest(t)
  /\ Stored(t, clear_mocks(Cell(t)))
  /\ sc' = [sc EXCEPT ![t] = ScClear(@, "", "all")]
  /\ ret' = [ret EXCEPT ![t] = NoRet]
  /\ UNCHANGED <<stack, made, nre, idsel, futs, expansion>>

(***************************************************************************)
(* An instrumented callable. Its body starts with the prologue             *)
(*   if f.mock_exists(PhantomData::<Ret>) { return f.call_mock((args,)); } *)
(* followed by the original statements.                                    *)
(***************************************************************************)
\* a call returns `value` to the frames in `below`
Return(t, f, below, value) ==
  /\ stack' = [stack EXCEPT ![t] = below]
  /\ ret' = [ret EXCEPT ![t] = value]
  /\ sc' = [sc EXCEPT ![t] = IF below = <<>> THEN ScCall(@, f, value.uid) ELSE @]

\* the body without the prologue: the original statements run on every call
Enter_uninstrumented(t, f, a, below) ==
  /\ Return(t, f, below, original(Item(f), a))
  /\ UNCHANGED <<MOCK_STORE, panicked>>

\* the prologue without its condition: call_mock on every call
Enter_unprobed(t, f, a, below) ==
  /\ stack' = [stack EXCEPT ![t] = <<Frame(f, a, "call_mock", NoEntry)>> \o below]
  /\ ret' = [ret EXCEPT ![t] = NoRet]
  /\ UNCHANGED <<MOCK_STORE, panicked, sc>>

\* f(a) is called with the frames in `below` waiting for it
Enter(t, f, a, below) ==
  LET d == Item(f)
      x == mock_exists(Cell(t), prologue_id(d))
  IN /\ Stored(t, x)
     /\ IF x.err
          THEN UNCHANGED <<stack, ret, sc>>
          ELSE IF x.ret
            THEN /\ stack' = [stack EXCEPT ![t] = <<Frame(f, a, "call_mock", NoEntry)>> \o below]
                 /\ ret' = [ret EXCEPT ![t] = NoRet]
                 /\ UNCHANGED sc
            ELSE Return(t, f, below, original(d, a))

\* test code calls f(a)
CallOf(t, L, f, a) ==
  /\ InTest(t)
  /\ Len(sc[t].calls) + Len(sc[t].after) < L.calls
  /\ Enter(t, f, a, <<>>)
  /\ UNCHANGED <<made, nre, idsel, futs, expansion>>

Call(t, L) == \E f \in L.fns, a \in Args : CallOf(t, L, f, a)

\* call_mock whose else branch falls back to the original statements
CallMockGet_fallback(t) ==
  /\ Running(t)
  /\ Top(t).pc = "call_mock"
  /\ LET r == store_get(Cell(t), prologue_id(Item(Top(t).f)))
     IN /\ MOCK_STORE' = [MOCK_STORE EXCEPT ![thread_local(t)] = r.cell]
        /\ IF IsSome(r.ret)
             THEN /\ stack' = [stack EXCEPT ![t][1].e = r.ret[1], ![t][1].pc = "boxed"]
                  /\ UNCHANGED <<panicked, ret, sc>>
             ELSE /\ Return(t, Top(t).f, Tail(stack[t]), original(Item(Top(t).f), Top(t).arg))
                  /\ UNCHANGED panicked
  /\ UNCHANGED <<made, nre, idsel, futs, expansion>>

\* call_mock: MOCK_STORE.with(|mock_store| mock_store.get(id))
CallMockGet(t) ==
  /\ Running(t)
  /\ Top(t).pc = "call_mock"
  /\ LET r == store_get(Cell(t), prologue_id(Item(Top(t).f)))
     IN /\ MOCK_STORE' = [MOCK_STORE EXCEPT ![thread_local(t)] = r.cell]
        /\ IF r.err
             THEN /\ panicked' = [panicked EXCEPT ![t] = "already borrowed"]
                  /\ UNCHANGED stack
             ELSE IF IsSome(r.ret)
               THEN /\ stack' = [stack EXCEPT ![t][1].e = r.ret[1], ![t][1].pc = "boxed"]
                    /\ UNCHANGED panicked
               ELSE /\ panicked' = [panicked EXCEPT ![t] = "mock should exist"]
                    /\ UNCHANGED stack
  /\ UNCHANGED <<made, nre, ret, sc, idsel, futs, expansion>>

\* call_mock: let ret = boxed(args), the override behaviour runs
Behavior(t, L) ==
  /\ Running(t)
  /\ Top(t).pc = "boxed"
  /\ LET fr == Top(t)
         with == fr.e.with
         d == Item(with.f)
         uid == <<t, made[t] + 1>>
         done == [stack EXCEPT ![t][1].pc = "tail"]
     IN CASE with.kind = "plain" ->
               /\ stack' = done
               /\ UNCHANGED <<MOCK_STORE, panicked, made, ret, sc>>
          [] with.kind = "count" ->
               /\ stack' = [done EXCEPT ![t][1].e.with = count(@)]
               /\ UNCHANGED <<MOCK_STORE, panicked, made, ret, sc>>
          [] with.kind = "refill" ->
               /\ made[t] < L.mocks + L.nested
               /\ Stored(t, mock_once(Cell(t), d, Closure(uid, "refill", with.f, with.O)))
               /\ made' = [made EXCEPT ![t] = @ + 1]
               /\ stack' = done
               /\ UNCHANGED <<ret, sc>>
          [] with.kind = "repeat" ->
               /\ made[t] < L.mocks + L.nested
               /\ Stored(t, mock_repeat(Cell(t), d, Some(2), Closure(uid, "plain", with.f, with.O)))
               /\ made' = [made EXCEPT ![t] = @ + 1]
               /\ stack' = done
               /\ UNCHANGED <<ret, sc>>
          [] with.kind = "clear" ->
               /\ \E impl \in MockCallImpls(d, with.O) :
                    Stored(t, ClearMocks_clear_mocks(Cell(t), d, impl))
               /\ stack' = done
               /\ UNCHANGED <<made, ret, sc>>
          [] with.kind = "clear_all" ->
               /\ Stored(t, clear_mocks(Cell(t)))
               /\ stack' = done
               /\ UNCHANGED <<made, ret, sc>>
          [] with.kind = "call" ->
               /\ Enter(t, with.f, fr.arg, done[t])
               /\ UNCHANGED made
  /\ UNCHANGED <<nre, idsel, futs, expansion>>

\* call_mock: the entry is re-inserted or dropped, and ret is returned
CallMockTail(t) ==
  /\ Running(t)
  /\ Top(t).pc = "tail"
  /\ LET fr == Top(t)
         r == call_mock_tail(Cell(t), prologue_id(Item(fr.f)), fr.e)
     IN /\ Stored(t, r)
        /\ IF r.err
             THEN UNCHANGED <<stack, ret, sc>>
             ELSE Return(t, fr.f, Tail(stack[t]), boxed(fr.e.with, fr.arg))
  /\ UNCHANGED <<made, nre, idsel, futs, expansion>>

\* test code invokes f.call_mock((a,)) itself, without the prologue's probe
CallMockDirect(t, L, f, a) ==
  /\ InTest(t)
  /\ stack' = [stack EXCEPT ![t] = <<Frame(f, a, "call_mock", NoEntry)>>]
  /\ ret' = [ret EXCEPT ![t] = NoRet]
  /\ sc' = [sc EXCEPT ![t] = NoScenario]
  /\ UNCHANGED <<MOCK_STORE, panicked, made, nre, idsel, futs, expansion>>

(***************************************************************************)
(* One thread's test over its own store.                                   *)
(***************************************************************************)
Step(t, L) ==
  \/ MockOnce(t, L)
  \/ MockRepeat(t, L)
  \/ ClearMocks(t, L)
  \/ ClearAll(t)
  \/ Call(t, L)
  \/ CallMockGet(t)
  \/ Behavior(t, L)
  \/ CallMockTail(t)

Next == Step(1, SeqLim)

Spec == Init /\ [][Next]_vars

(***************************************************************************)
(* Two threads, each running its own test.                                 *)
(***************************************************************************)
NextMT == \E t \in Threads : Step(t, MTLim)

SpecMT == Init /\ [][NextMT]_vars

(***************************************************************************)
(* One thread's test whose behaviours only return a value.                 *)
(***************************************************************************)
NextFifo == Step(1, FifoLim)

SpecFifo == Init /\ [][NextFifo]_vars

(***************************************************************************)
(* One thread's test that also invokes call_mock directly.                 *)
(***************************************************************************)
DirectLim == [fns |-> {"foo", "baz"}, kinds |-> {"plain"}, repeats |-> Repeats(MaxRepeat),
              mocks |-> MaxMocks, nested |-> 0, calls |-> MaxCalls, reentrant |-> 0]

NextDirect ==
  \/ Step(1, DirectLim)
  \/ \E f \in DirectLim.fns, a \in Args : CallMockDirect(1, DirectLim, f, a)

SpecDirect == Init /\ [][NextDirect]_vars

(***************************************************************************)
(* One thread's test whose behaviours count down a captured variable or    *)
(* call the callable they override.                                        *)
(***************************************************************************)
ReuseLim == [fns |-> {"foo"}, kinds |-> {"count", "call"}, repeats |-> Repeats(MaxRepeat),
             mocks |-> MaxMocks, nested |-> 0, calls |-> MaxCalls,
             reentrant |-> MaxReentrant]

NextReuse == Step(1, ReuseLim)

SpecReuse == Init /\ [][NextReuse]_vars

(***************************************************************************)
(* An instrumented `async fn`. The prologue is the first statement of the  *)
(* async body: invoking the callable only builds the suspension, and the   *)
(* prologue runs when the suspension is first resumed. The body has no     *)
(* await point of its own, so that resumption runs it to its end.          *)
(* A suspension is [f, arg, st |-> "created" | "polling" | "done",         *)
(* head |-> the entry at the head of the prologue's queue when the         *)
(* suspension was first resumed, value |-> what it resolved to].           *)
(***************************************************************************)
Suspension(f, a, st) == [f |-> f, arg |-> a, st |-> st, head |-> NoEntry, value |-> NoRet]

\* the frame of the suspension being resumed
PollFrame(f, a) == Frame(f, a, "poll", NoEntry)

\* an invocation that runs the body at once, as a body outside any suspension does
Invoke_eager(t, f, a) ==
  /\ InTest(t)
  /\ Item(f).async
  /\ Len(futs[t]) < MaxFutures
  /\ futs' = [futs EXCEPT ![t] = Append(@, Suspension(f, a, "polling"))]
  /\ Enter(t, f, a, <<PollFrame(f, a)>>)
  /\ UNCHANGED <<made, nre, idsel, expansion>>

\* test code invokes f(a) and keeps the suspension
Invoke(t, f, a) ==
  /\ InTest(t)
  /\ Item(f).async
  /\ Len(futs[t]) < MaxFutures
  /\ futs' = [futs EXCEPT ![t] = Append(@, Suspension(f, a, "created"))]
  /\ UNCHANGED <<MOCK_STORE, stack, made, nre, ret, panicked, sc, idsel, expansion>>

\* test code resumes the i-th suspension for the first time (.await)
Poll(t, i) ==
  /\ InTest(t)
  /\ i \in 1..Len(futs[t])
  /\ futs[t][i].st = "created"
  /\ LET fu == futs[t][i]
         q == Queue(Cell(t), prologue_id(Item(fu.f)))
     IN /\ futs' = [futs EXCEPT ![t][i].st = "polling",
                                ![t][i].head = IF q = <<>> THEN NoEntry ELSE Head(q)]
        /\ Enter(t, fu.f, fu.arg, <<PollFrame(fu.f, fu.arg)>>)
  /\ UNCHANGED <<made, nre, idsel, expansion>>

\* the body has returned: the suspension resolves to its value
Resolve(t) ==
  /\ Running(t)
  /\ Top(t).pc = "poll"
  /\ stack' = [stack EXCEPT ![t] = Tail(@)]
  /\ futs' = [futs EXCEPT ![t] =
                [i \in DOMAIN @ |-> IF @[i].st = "polling"
                                      THEN [@[i] EXCEPT !.st = "done", !.value = ret[t]]
                                      ELSE @[i]]]
  /\ UNCHANGED <<MOCK_STORE, made, nre, ret, panicked, sc, idsel, expansion>>

AsyncLim == [fns |-> {"afoo"}, kinds |-> {"plain"}, repeats |-> Repeats(MTRepeat),
             mocks |-> MaxMocks, nested |-> 0, calls |-> MTCalls, reentrant |-> 0]

NextAsync ==
  \/ Step(1, AsyncLim)
  \/ \E f \in AsyncLim.fns, a \in Args : Invoke(1, f, a)
  \/ \E i \in 1..MaxFutures : Poll(1, i)
  \/ Resolve(1)

SpecAsync == Init /\ [][NextAsync]_vars

(***************************************************************************)
(* The compiler hands one annotated unit to #[mock]. The units are the     *)
(* legal items: free functions and trait definitions with any visibility,  *)
(* impl blocks (which take none), each with or without `unsafe`.           *)
(***************************************************************************)
SeqsUpTo(S, n) == UNION { [1..k -> S] : k \in 0..n }

AttrNames == {"async_trait", "instrument"}
Visibilities == {Inherited, Public, Restricted("(crate)"), Restricted("(in path)")}

GenericLists ==
  { <<>>,
    <<GenericParam("Type", "T")>>,
    <<GenericParam("Lifetime", "a")>>,
    <<GenericParam("Lifetime", "a"), GenericParam("Type", "T"), GenericParam("Const", "N")>> }

Bodies == { <<>>, <<Original("s1"), Original("s2")>> }

FnSignatures ==
  { Signature("foo", g, i, o) :
      g \in GenericLists, i \in {<<>>, <<Typed("x")>>}, o \in {None, Some("String")} }

MethodSignatures ==
  { Signature("bar", g, <<Receiver, Typed("b")>>, Some("String")) : g \in GenericLists }
  \cup { Signature("new", <<>>, <<>>, None) }

ImplItems ==
  { ItemMethod(sig, TRUE, b) : sig \in MethodSignatures, b \in Bodies }
  \cup { ItemConst("LIMIT") }

TraitItems ==
  ImplItems \cup { ItemMethod(sig, FALSE, <<>>) : sig \in MethodSignatures }

Units ==
  { Unit("fn", a, v, u, None, sig.ident, sig, b, <<>>) :
      a \in SeqsUpTo(AttrNames, MaxAttrs), v \in Visibilities, u \in BOOLEAN,
      sig \in FnSignatures, b \in Bodies }
  \cup
  { Unit("impl", a, Inherited, u, tr, "Foo", NoSig, <<>>, items) :
      a \in SeqsUpTo(AttrNames, MaxAttrs), u \in BOOLEAN, tr \in {None, Some("Bar")},
      items \in SeqsUpTo(ImplItems, MaxItems) }
  \cup
  { Unit("trait", a, v, u, None, "Bar", NoSig, <<>>, items) :
      a \in SeqsUpTo(AttrNames, MaxAttrs), v \in Visibilities, u \in BOOLEAN,
      items \in SeqsUpTo(TraitItems, MaxItems) }

\* the expansion of #[mock] over one unit
Mock ==
  /\ expansion = NoExpansion
  /\ \E u \in Units : expansion' = [input |-> u, output |-> mock(u)]
  /\ UNCHANGED <<MOCK_STORE, stack, made, nre, ret, panicked, sc, idsel, futs>>

NextMacro == Mock

SpecMacro == Init /\ [][NextMacro]_vars

(***************************************************************************)
(* Identity resolution on its own: a test refers to callable f with a      *)
(* closure returning w (mock_once / mock_repeat) and through one of f's    *)
(* CallMock implementations (clear_mocks), f's prologue refers to f, and   *)
(* the prologue of a callable g refers to g.                               *)
(***************************************************************************)
IdRefer ==
  /\ idsel.phase = "none"
  /\ \E d \in Items, e \in Items :
       \E w \in ClosureRets(d), impl \in CallMockImpls(d) :
         idsel' = [phase |-> "referred", f |-> d.path, g |-> e.path,
                   mock |-> mock_call_id(d, w),
                   clear |-> get_mock_id(d, impl),
                   exists |-> NoId, call |-> NoId, other |-> NoId]
  /\ UNCHANGED <<MOCK_STORE, stack, made, nre, ret, panicked, sc, futs, expansion>>

IdCall ==
  /\ idsel.phase = "referred"
  /\ idsel' = [idsel EXCEPT !.phase = "called",
                            !.exists = prologue_id(Item(idsel.f)),
                            !.call = prologue_id(Item(idsel.f)),
                            !.other = prologue_id(Item(idsel.g))]
  /\ UNCHANGED <<MOCK_STORE, stack, made, nre, ret, panicked, sc, futs, expansion>>

NextId == IdRefer \/ IdCall

SpecId == Init /\ [][NextId]_vars

(***************************************************************************)
(* Properties.                                                             *)
(***************************************************************************)
\* the identity under which test code registers overrides for callable f
IdOf(f) == mock_call_id(Item(f), Item(f).ret)

Last(q) == q[Len(q)]

\* the behaviours registered in the run s only return a value
AllPlain(s) == \A i \in 1..Len(s.adds) : s.adds[i].kind = "plain"

\* C1: FIFO ordering of single-use overrides. When b1, b2, b3 are added with
\* mock_once to one identity whose queue was empty, with no other operation
\* in between, the next three calls return the results of b1, b2, b3 in
\* that order and the fourth call executes the original logic.
C1_FifoOnce ==
  \A t \in Threads :
    LET s == sc[t] IN
      ( /\ s.ok /\ s.cleared = "no" /\ Len(s.adds) = 3 /\ AllPlain(s)
        /\ \A i \in 1..3 : s.adds[i].repeat = Some(1) )
      => \A k \in 1..Len(s.calls) :
           s.calls[k] = IF k <= 3 THEN s.adds[k].uid ELSE NoUid

C1_Witness ==
  \E t \in Threads :
    /\ sc[t].ok /\ Len(sc[t].adds) = 3 /\ AllPlain(sc[t])
    /\ \A i \in 1..3 : sc[t].adds[i].repeat = Some(1)
    /\ Len(sc[t].calls) = 4

\* C2: finite repeat accounting. After mock_repeat(Some(n), b), n >= 1, on
\* an identity whose queue is empty, the next n calls use b, call n + 1 (and
\* every later one) executes the original logic, and once b is used up
\* mock_exists is false for the identity. b registers nothing and calls
\* nothing while it runs.
C2_Quiet == {"plain", "clear", "clear_all"}

C2_FiniteRepeat ==
  \A t \in Threads :
    LET s == sc[t] IN
      ( /\ s.ok /\ s.cleared = "no" /\ Len(s.adds) = 1
        /\ IsSome(s.adds[1].repeat) /\ s.adds[1].repeat # Some(0)
        /\ s.adds[1].kind \in C2_Quiet )
      => LET n == s.adds[1].repeat[1] IN
           /\ \A k \in 1..Len(s.calls) :
                s.calls[k] = IF k <= n THEN s.adds[1].uid ELSE NoUid
           /\ (Len(s.calls) > n /\ InTest(t))
                => /\ Queue(Cell(t), IdOf(s.f)) = <<>>
                   /\ ~store_mock_exists(Cell(t), IdOf(s.f)).ret

C2_Witness ==
  \E t \in Threads :
    /\ sc[t].ok /\ Len(sc[t].adds) = 1 /\ sc[t].adds[1].repeat = Some(2)
    /\ sc[t].adds[1].kind = "plain"
    /\ sc[t].calls = <<sc[t].adds[1].uid, sc[t].adds[1].uid, NoUid>>

C4_SelfRefill ==
  \A t \in Threads :
    LET s == sc[t] IN
      ( /\ s.ok
        /\ \E i \in 1..Len(s.adds) : s.adds[i].kind = "refill" /\ s.adds[i].repeat = Some(1)
        /\ \A i \in 1..Len(s.adds) : s.adds[i].kind \notin {"clear", "clear_all"} )
      => /\ \A k \in 1..Len(s.calls) : s.calls[k] # NoUid
         /\ (s.cleared = "no" /\ InTest(t)) => Queue(Cell(t), IdOf(s.f)) # <<>>
         /\ \A k \in 1..Len(s.after) : s.after[k] = NoUid

C4_Witness ==
  \E t \in Threads :
    /\ sc[t].ok /\ Len(sc[t].adds) = 1
    /\ sc[t].adds[1].kind = "refill" /\ sc[t].adds[1].repeat = Some(1)
    /\ Len(sc[t].calls) >= 2 /\ sc[t].calls[2] # sc[t].calls[1]
    /\ sc[t].cleared = "id" /\ Len(sc[t].after) >= 1

\* the identities other than id keep their queues across the step
OthersUnchanged(t, id) ==
  \A x \in (DOMAIN Cell(t).m \cup DOMAIN (Cell(t).m)') \ {id} :
    /\ x \in DOMAIN Cell(t).m
    /\ x \in DOMAIN (Cell(t).m)'
    /\ (Cell(t).m)'[x] = Cell(t).m[x]

\* the step is the behaviour of kind k running inside a call of f
BehaviorOf(t, L, f, k) ==
  /\ Running(t) /\ Top(t).pc = "boxed" /\ Top(t).f = f
  /\ Top(t).e.with.kind = k
  /\ Behavior(t, L)

\* C5: dispatch decision. A call of an instrumented callable executes the
\* original statements iff mock_exists for its identity is false when the
\* prologue runs; otherwise it enters call_mock with the forwarded arguments,
\* whose result it returns without executing the original statements. With
\* no override ever registered every call returns what the original returns.
C5_Dispatch ==
  [][\A t \in Threads :
       /\ \A f \in SeqLim.fns, a \in Args :
            CallOf(t, SeqLim, f, a) =>
              LET d == Item(f)
                  exists == mock_exists(Cell(t), prologue_id(d)).ret
              IN /\ (~exists) <=> (ret'[t] = original(d, a) /\ stack'[t] = <<>>)
                 /\ exists => /\ stack'[t] = <<Frame(f, a, "call_mock", NoEntry)>>
                              /\ ret'[t] = NoRet
                 /\ made[t] = 0 => ret'[t] = original(d, a)
       /\ (CallMockTail(t) /\ panicked'[t] = "no") =>
            /\ ret'[t] = boxed(Top(t).e.with, Top(t).arg)
            /\ ret'[t] # original(Item(Top(t).f), Top(t).arg)
    ]_vars

C5_Witness ==
  \E t \in Threads :
    /\ InTest(t) /\ ret[t].tag = "mock" /\ ret[t].f = "foo" /\ ret[t].arg = 2
    /\ sc[t].ok /\ sc[t].f = "foo" /\ Len(sc[t].calls) >= 2
    /\ sc[t].calls[1] # Last(sc[t].calls)

\* C6: isolation between identities. mock_once, mock_repeat, per-identity
\* clear_mocks and calls of the instrumented callable for identity A leave
\* the queue of every other identity unchanged; an override is only ever
\* used by a call of the callable it was registered for, and a call of B
\* executes the original logic whenever B's own queue is empty, whatever A's
\* queue holds.
C6_Isolation ==
  [][\A t \in Threads, f \in SeqLim.fns :
       /\ ( \/ /\ InTest(t) /\ made'[t] # made[t]
               /\ Queue((Cell(t))', IdOf(f)) # <<>>
               /\ LET e == Last(Queue((Cell(t))', IdOf(f)))
                  IN \E once \in BOOLEAN :
                       Register(t, SeqLim, f, e.repeat, e.with.kind, once)
            \/ /\ InTest(t) /\ made'[t] = made[t]
               /\ (ClearOf(t, f) \/ \E a \in Args : CallOf(t, SeqLim, f, a))
            \/ /\ Running(t) /\ Top(t).f = f
               /\ \/ CallMockGet(t)
                  \/ CallMockTail(t)
                  \/ Top(t).e.with.kind # "clear_all" /\ Behavior(t, SeqLim) )
          => OthersUnchanged(t, IdOf(f))
       /\ (Running(t) /\ Top(t).f = f /\ panicked'[t] = "no" /\ CallMockGet(t))
          => Head(stack'[t]).e.with.f = f
       /\ \A a \in Args :
            (InTest(t) /\ Queue(Cell(t), IdOf(f)) = <<>> /\ CallOf(t, SeqLim, f, a))
              => ret'[t] = original(Item(f), a)
    ]_vars

C6_Witness ==
  \E t \in Threads :
    /\ InTest(t) /\ ret[t] = original(Item("baz"), 1)
    /\ Queue(Cell(t), IdOf("foo")) # <<>>
    /\ Queue(Cell(t), IdOf("baz")) = <<>>
    /\ Item("foo").args = Item("baz").args /\ Item("foo").ret = Item("baz").ret

\* C7 as stated: the identity mock_once / mock_repeat / clear_mocks operate
\* under equals the identity mock_exists and call_mock use in the callable's
\* own prologue, and two distinct declared callables never share an identity.
C7_Rendezvous ==
  idsel.phase = "called" =>
    /\ idsel.mock = idsel.exists
    /\ idsel.clear = idsel.exists
    /\ idsel.exists = idsel.call
    /\ idsel.f # idsel.g => idsel.exists # idsel.other

\* C8: clearing. Per-identity clear_mocks() removes every queued entry of
\* the identity, whatever its remaining count, and changes no other
\* identity's queue; the thread-wide clear_mocks() removes the entries of all
\* identities. Immediately after either, mock_exists is false for each
\* cleared identity.
C8_Clearing ==
  [][\A t \in Threads :
       /\ \A f \in SeqLim.fns :
            (ClearOf(t, f) \/ BehaviorOf(t, SeqLim, f, "clear"))
              => /\ Queue((Cell(t))', IdOf(f)) = <<>>
                 /\ ~mock_exists((Cell(t))', IdOf(f)).ret
                 /\ OthersUnchanged(t, IdOf(f))
       /\ (ClearAll(t) \/ \E f \in SeqLim.fns : BehaviorOf(t, SeqLim, f, "clear_all"))
            => \A d \in Items :
                 /\ Queue((Cell(t))', prologue_id(d)) = <<>>
                 /\ ~mock_exists((Cell(t))', prologue_id(d)).ret
    ]_vars

C8_Witness ==
  \E t \in Threads :
    /\ InTest(t) /\ sc[t].ok /\ sc[t].cleared = "id"
    /\ Len(sc[t].adds) = 2 /\ sc[t].adds[1].repeat = Some(2) /\ sc[t].adds[2].repeat = None
    /\ Len(sc[t].calls) = 1 /\ sc[t].after = <<>>
    /\ Queue(Cell(t), IdOf(sc[t].f)) = <<>>

\* C9: thread isolation. Every thread has its own store: a step of one
\* thread (registering, consuming or clearing an override) changes neither
\* the store of any other thread nor what mock_exists and call_mock's get
\* observe there, under every interleaving.
C9_ThreadIsolation ==
  [][\A t \in Threads :
       Step(t, MTLim) =>
         \A u \in Threads \ {t} :
           /\ (Cell(u))' = Cell(u)
           /\ \A d \in Items :
                /\ mock_exists((Cell(u))', prologue_id(d)) = mock_exists(Cell(u), prologue_id(d))
                /\ store_get((Cell(u))', prologue_id(d)) = store_get(Cell(u), prologue_id(d))
    ]_vars

C9_Witness ==
  \E t \in Threads, u \in Threads :
    /\ t # u
    /\ made[u] = 0 /\ ret[u] = original(Item("foo"), 1)
    /\ ret[t].tag = "mock" /\ Queue(Cell(t), IdOf("foo")) # <<>>
    /\ Queue(Cell(u), IdOf("foo")) = <<>>

\* C10: re-entrancy safety. While an override behaviour runs, and until
\* call_mock re-inserts it, its entry is out of the queue and the store is
\* not borrowed, so a behaviour that calls mock_once, mock_repeat,
\* clear_mocks or an instrumented callable (its own included) never makes a
\* store operation fail on an already-borrowed store.
C10_Reentrancy ==
  \A t \in Threads :
    /\ panicked[t] # "already borrowed"
    /\ Cell(t).b = 0
    /\ \A i \in 1..Len(stack[t]) :
         stack[t][i].pc \in {"boxed", "tail"} =>
           \A id \in DOMAIN Cell(t).m :
             \A j \in 1..Len(Cell(t).m[id]) :
               Cell(t).m[id][j].with.uid # stack[t][i].e.with.uid

C10_Witness ==
  \E t \in Threads :
    /\ panicked[t] = "no" /\ Len(stack[t]) = 2
    /\ stack[t][1].pc = "tail" /\ stack[t][1].e.with.kind = "plain"
    /\ stack[t][2].pc = "tail" /\ stack[t][2].e.with.kind = "call"
    /\ stack[t][1].f = stack[t][2].f

\* C11: broken-invariant handling. When call_mock runs for an identity whose
\* queue is absent or empty it panics with "mock should exist": no value is
\* returned, the original statements are not run, and the store is left as
\* it was; nothing runs on the thread afterwards.
C11_PanicOnEmpty ==
  [][\A t \in Threads :
       /\ ( /\ Running(t) /\ Top(t).pc = "call_mock"
            /\ Queue(Cell(t), prologue_id(Item(Top(t).f))) = <<>>
            /\ CallMockGet(t) )
          => /\ panicked'[t] = "mock should exist"
             /\ MOCK_STORE' = MOCK_STORE
             /\ ret'[t] = NoRet
             /\ stack'[t] = stack[t]
       /\ panicked[t] # "no"
          => /\ panicked'[t] = panicked[t]
             /\ ret'[t] = ret[t]
             /\ (Cell(t))' = Cell(t)
    ]_vars

C11_Witness ==
  \E t \in Threads :
    /\ panicked[t] = "mock should exist"
    /\ Top(t).f = "foo" /\ ret[t] = NoRet
    /\ IdOf("foo") \in DOMAIN Cell(t).m /\ Queue(Cell(t), IdOf("foo")) = <<>>
    /\ Queue(Cell(t), IdOf("baz")) # <<>>

C11_WitnessAbsent ==
  \E t \in Threads :
    /\ panicked[t] = "mock should exist"
    /\ Top(t).f = "foo"
    /\ IdOf("foo") \notin DOMAIN Cell(t).m

\* C12: mock_once(b) is equivalent to mock_repeat(Some(1), b). From every
\* store state both leave the same store, and a step test code takes with
\* one is a step it takes with the other, so whatever follows is the same.
C12_OnceIsRepeatOne ==
  [][\A t \in Threads :
       InTest(t) =>
         \A f \in SeqLim.fns, kind \in SeqLim.kinds :
           /\ \A O \in ClosureRets(Item(f)) :
                LET with == Closure(<<t, made[t] + 1>>, kind, f, O)
                IN mock_once(Cell(t), Item(f), with)
                     = mock_repeat(Cell(t), Item(f), Some(1), with)
           /\ made'[t] # made[t] =>
                ( Register(t, SeqLim, f, Some(1), kind, TRUE)
                  <=> Register(t, SeqLim, f, Some(1), kind, FALSE) )
    ]_vars

C12_Witness ==
  \E t \in Threads :
    /\ InTest(t) /\ sc[t].ok /\ Len(sc[t].adds) = 1
    /\ sc[t].adds[1].repeat = Some(1)
    /\ sc[t].calls = <<sc[t].adds[1].uid, NoUid>>

\* how often test code's calls in the run s used the closure uid
Uses(s, uid) == Cardinality({ k \in 1..Len(s.calls) : s.calls[k] = uid })

\* In a run of plain behaviours from an empty queue, every override
\* registered with a finite count of at least lo has been used no more often
\* than its count, is held by exactly one entry carrying what remains while
\* uses remain, and (for a count of at least one) by none afterwards.
Accounted(t, lo) ==
  LET s == sc[t]
      q == Queue(Cell(t), IdOf(s.f))
  IN (s.ok /\ s.cleared = "no" /\ AllPlain(s) /\ InTest(t)) =>
       \A i \in 1..Len(s.adds) :
         (IsSome(s.adds[i].repeat) /\ s.adds[i].repeat[1] >= lo) =>
           LET n == s.adds[i].repeat[1]
               used == Uses(s, s.adds[i].uid)
               held == { j \in 1..Len(q) : q[j].with.uid = s.adds[i].uid }
           IN /\ used <= n
              /\ Cardinality(held) <= 1
              /\ used < n => \E j \in held : q[j].repeat = Some(n - used)
              /\ (used >= n /\ n >= 1) => held = {}

\* A call_mock that finds an entry dequeues exactly the head of its queue;
\* after the behaviour has returned, call_mock enqueues at most once: an
\* entry of count Some(1) is discarded, one of count Some(n), n > 1, goes to
\* the tail with n - 1, an unlimited one goes to the tail unchanged. zero
\* says what is expected of an entry whose count is Some(0).
OneDequeueOneEnqueue(t, zero) ==
  /\ ( /\ Running(t) /\ Top(t).pc = "call_mock"
       /\ Queue(Cell(t), prologue_id(Item(Top(t).f))) # <<>>
       /\ CallMockGet(t) )
     => LET id == prologue_id(Item(Top(t).f))
        IN /\ Queue((Cell(t))', id) = Tail(Queue(Cell(t), id))
           /\ Head(stack'[t]).e = Head(Queue(Cell(t), id))
           /\ Head(stack'[t]).pc = "boxed"
           /\ OthersUnchanged(t, id)
  /\ ( Running(t) /\ Top(t).pc = "tail" /\ CallMockTail(t) )
     => LET id == prologue_id(Item(Top(t).f))
            e == Top(t).e
            q == Queue(Cell(t), id)
            q2 == Queue((Cell(t))', id)
        IN /\ OthersUnchanged(t, id)
           /\ CASE e.repeat = None -> q2 = Append(q, e)
                [] e.repeat = Some(1) -> q2 = q
                [] IsSome(e.repeat) /\ e.repeat[1] > 1 ->
                     q2 = Append(q, MockReturn(e.with, Some(e.repeat[1] - 1)))
                [] OTHER -> zero

\* C13 as stated: consumption accounting. Every call_mock that finds an
\* entry performs one dequeue from the head and at most one enqueue; the
\* dequeued entry is discarded when its count was Some(1), re-inserted at
\* the tail with n - 1 when it was Some(n), n > 1, re-inserted unchanged when
\* unlimited; no finite-count override is lost before its count is used up
\* or used more times than its count.
C13_Accounting ==
  [][\A t \in Threads :
       /\ OneDequeueOneEnqueue(t, FALSE)
       /\ Accounted(t, 0)'
    ]_vars

\* The same accounting for the overrides registered with a count of at
\* least one (an entry of count Some(0), once dequeued, is discarded).
C13_AccountingFromOne ==
  [][\A t \in Threads :
       /\ OneDequeueOneEnqueue(t, Queue((Cell(t))', prologue_id(Item(Top(t).f)))
                                    = Queue(Cell(t), prologue_id(Item(Top(t).f))))
       /\ Accounted(t, 1)'
    ]_vars

\* C14 as stated: for one identity holding several overrides of any
\* remaining counts, the overrides are consumed in the exact order they were
\* added: every use of an override added earlier comes before every use of
\* one added later.
C14_AsStated ==
  \A t \in Threads :
    LET s == sc[t] IN
      (s.ok /\ s.cleared = "no" /\ AllPlain(s)) =>
        \A i \in 1..Len(s.adds), j \in 1..Len(s.adds) :
          i < j =>
            \A k1 \in 1..Len(s.calls), k2 \in 1..Len(s.calls) :
              (s.calls[k1] = s.adds[i].uid /\ s.calls[k2] = s.adds[j].uid) => k1 < k2

\* the queues of cell c2 hold the entries of c in the order c holds them:
\* each is the queue of c, or it without its head, or it with one entry
\* appended, or empty
OrderKept(c, c2) ==
  \A id \in DOMAIN c.m \cup DOMAIN c2.m :
    LET q == Queue(c, id)
        q2 == Queue(c2, id)
    IN \/ q2 = q
       \/ q2 = <<>>
       \/ q # <<>> /\ q2 = Tail(q)
       \/ q2 # <<>> /\ SubSeq(q2, 1, Len(q2) - 1) = q

\* C14: ordering guarantee. Each queue is FIFO over its entries: a call
\* consumes the entry at the head, and every insertion (by test code, by a
\* running behaviour, or call_mock's re-insertion of an entry with uses
\* left) appends after all queued entries and never reorders them. From an
\* empty queue the overrides are first used in the order they were added; an
\* override with uses left is queued again behind those added after it.
C14_Fifo ==
  [][\A t \in Threads :
       /\ OrderKept(Cell(t), (Cell(t))')
       /\ ( Running(t) /\ Top(t).pc = "call_mock" /\ panicked'[t] = "no" /\ CallMockGet(t) )
          => Head(stack'[t]).e = Head(Queue(Cell(t), prologue_id(Item(Top(t).f))))
       /\ ( Running(t) /\ Top(t).pc = "boxed" /\ Top(t).e.with.kind \in {"refill", "repeat"}
            /\ Behavior(t, SeqLim) )
          => LET id == prologue_id(Item(Top(t).f))
             IN /\ Len(Queue((Cell(t))', id)) = Len(Queue(Cell(t), id)) + 1
                /\ SubSeq(Queue((Cell(t))', id), 1, Len(Queue(Cell(t), id))) = Queue(Cell(t), id)
       /\ LET s == sc'[t] IN
            (s.ok /\ s.cleared = "no" /\ AllPlain(s)) =>
              \A k \in 1..Len(s.calls) :
                k <= Len(s.adds) => s.calls[k] = s.adds[k].uid
    ]_vars

C14_Witness ==
  \E t \in Threads :
    /\ sc[t].ok /\ Len(sc[t].adds) = 2 /\ AllPlain(sc[t])
    /\ sc[t].adds[1].repeat = Some(2) /\ sc[t].adds[2].repeat = Some(1)
    /\ sc[t].calls = <<sc[t].adds[1].uid, sc[t].adds[2].uid, sc[t].adds[1].uid>>

\* C15 as stated: counter invariant. Every entry held in a queue has count
\* Unlimited or Finite(n) with n >= 1, and no entry of count 0 is ever
\* invoked.
C15_CounterInvariant ==
  \A t \in Threads :
    /\ \A id \in DOMAIN Cell(t).m :
         \A j \in 1..Len(Cell(t).m[id]) : Cell(t).m[id][j].repeat # Some(0)
    /\ \A i \in 1..Len(stack[t]) :
         stack[t][i].pc \in {"boxed", "tail"} => stack[t][i].e.repeat # Some(0)

\* call_mock itself never stores a count of 0: what it re-inserts has count
\* Unlimited or Finite(n - 1) with n > 1.
C15_ReinsertPositive ==
  [][\A t \in Threads :
       (Running(t) /\ Top(t).pc = "tail" /\ CallMockTail(t)) =>
         \A id \in DOMAIN (Cell(t).m)' :
           \A j \in 1..Len((Cell(t).m)'[id]) :
             (Cell(t).m)'[id][j].repeat = Some(0) =>
               /\ id \in DOMAIN Cell(t).m
               /\ j <= Len(Cell(t).m[id])
               /\ Cell(t).m[id][j] = (Cell(t).m)'[id][j]
    ]_vars

\* mock_exists on the store of thread t answers "present and non-empty" for
\* every identity and hands the store back as it was
ProbeExact(t) ==
  \A d \in Items :
    LET id == prologue_id(d)
        r == mock_exists(Cell(t), id)
    IN /\ r.ret <=> (id \in DOMAIN Cell(t).m /\ Cell(t).m[id] # <<>>)
       /\ r.cell = Cell(t)
       /\ ~r.err

\* C16: existence probe. In every reachable store, mock_exists(id) is true
\* iff the queue for id is present and non-empty, and it leaves the whole
\* store unchanged; it is false for an identity whose entries have all been
\* consumed although its key is still present with an empty queue.
C16_Probe == \A t \in Threads : ProbeExact(t)

C16_Witness ==
  \E t \in Threads :
    /\ InTest(t)
    /\ IdOf("foo") \in DOMAIN Cell(t).m /\ Cell(t).m[IdOf("foo")] = <<>>
    /\ ~mock_exists(Cell(t), IdOf("foo")).ret
    /\ ret[t] = original(Item("foo"), 1)
    /\ sc[t].ok /\ sc[t].f = "foo" /\ Len(sc[t].calls) >= 2

\* C17: probe-then-consume atomicity. Within one thread, whatever calls,
\* registrations and clears test code and running behaviours make, a call
\* whose prologue found mock_exists true is about to run call_mock on a
\* non-empty queue: call_mock finds an entry and the "mock should exist"
\* failure is never reached.
C17_ProbeThenConsume ==
  \A t \in Threads :
    /\ panicked[t] # "mock should exist"
    /\ \A i \in 1..Len(stack[t]) :
         stack[t][i].pc = "call_mock" =>
           /\ i = 1
           /\ Queue(Cell(t), prologue_id(Item(stack[t][i].f))) # <<>>
           /\ IsSome(store_get(Cell(t), prologue_id(Item(stack[t][i].f))).ret)

C17_Witness ==
  \E t \in Threads :
    /\ Running(t) /\ Len(stack[t]) = 2
    /\ Top(t).pc = "call_mock"
    /\ stack[t][2].e.with.kind = "call"
    /\ Len(Queue(Cell(t), prologue_id(Item(Top(t).f)))) = 1

\* C18 as stated: clear from inside a behaviour. Once clear_mocks() for an
\* identity, or the thread-wide clear_mocks(), has been called, by test code
\* or by a running behaviour of that identity, and nothing has been
\* registered since, the next call executes the original logic, whatever the
\* count of the running entry.
C18_ClearFromBehavior ==
  \A t \in Threads :
    LET s == sc[t] IN
      /\ s.ok => \A k \in 1..Len(s.after) : s.after[k] = NoUid
      /\ ( /\ s.ok /\ s.cleared = "no" /\ Len(s.adds) = 1
           /\ s.adds[1].kind \in {"clear", "clear_all"} )
         => \A k \in 1..Len(s.calls) : k >= 2 => s.calls[k] = NoUid

\* A clear made by the behaviour of a single-use entry does end the series.
C18_SingleUse ==
  \A t \in Threads :
    LET s == sc[t] IN
      ( /\ s.ok /\ s.cleared = "no" /\ Len(s.adds) = 1
        /\ s.adds[1].kind \in {"clear", "clear_all"}
        /\ s.adds[1].repeat \in {Some(0), Some(1)} )
      => \A k \in 1..Len(s.calls) : k >= 2 => s.calls[k] = NoUid

(***************************************************************************)
(* C19. Asynchronous shape. Invoking an instrumented async callable builds *)
(* the suspension and touches neither the store nor the call stack; the    *)
(* override is probed and consumed when the suspension is first resumed:   *)
(* the entry taken inside a resumption is the one that headed the queue at *)
(* that moment, so overrides go to suspensions in the order of their first *)
(* resumption; a suspension never resumed holds no value and no entry; a   *)
(* resolved suspension holds the value its behaviour returned (or the      *)
(* original body's), and the behaviours queued for the prologue return the *)
(* declared type itself, not a suspension.                                 *)
(***************************************************************************)
SuspensionSettled(fu) ==
  /\ fu.st = "created" => fu.value = NoRet /\ fu.head = NoEntry
  /\ fu.st = "done" =>
       fu.value = IF fu.head = NoEntry THEN original(Item(fu.f), fu.arg)
                                       ELSE boxed(fu.head.with, fu.arg)
  /\ fu.head # NoEntry => fu.head.with.O = Item(fu.f).ret /\ ~IsFuture(fu.head.with.O)

InvokedOnly ==
  Len(futs'[1]) > Len(futs[1]) =>
    /\ MOCK_STORE' = MOCK_STORE
    /\ stack' = stack
    /\ Last(futs'[1]).st = "created"

ConsumedByResumed ==
  (/\ Running(1)
   /\ Top(1).pc = "call_mock"
   /\ Last(stack[1]).pc = "poll"
   /\ stack'[1] # <<>>
   /\ Head(stack'[1]).pc = "boxed") =>
    \E i \in 1..Len(futs[1]) :
      /\ futs[1][i].st = "polling"
      /\ Head(stack'[1]).e = futs[1][i].head
      /\ \A j \in 1..Len(futs[1]) : j # i => futs[1][j].st # "polling"

C19_AsyncShape ==
  /\ [](\A i \in 1..Len(futs[1]) : SuspensionSettled(futs[1][i]))
  /\ [][InvokedOnly /\ ConsumedByResumed]_vars

\* two suspensions, the second resumed first: it took the first override
C19_Witness ==
  /\ Len(futs[1]) = 2
  /\ futs[1][1].st = "done" /\ futs[1][1].value.uid = <<1, 2>>
  /\ futs[1][2].st = "done" /\ futs[1][2].value.uid = <<1, 1>>

(***************************************************************************)
(* C20. Behaviour instance reuse. A registered override is one stateful    *)
(* instance: it is held by at most one place at a time, a queue entry or   *)
(* the call_mock activation that detached it, so it is never invoked by    *)
(* two uses at once nor present in two entries; and every use runs that    *)
(* same instance, so in a run of counting behaviours from an empty queue   *)
(* the instance waiting in the queue after k uses has counted its captured *)
(* variable down k times.                                                  *)
(***************************************************************************)
\* the queue positions and the call_mock activations that hold the instance uid
HeldInQueues(t, uid) ==
  LET c == Cell(t)
  IN UNION { { <<id, k>> : k \in { k \in DOMAIN c.m[id] : c.m[id][k].with.uid = uid } } :
             id \in DOMAIN c.m }

HeldInFrames(t, uid) ==
  { k \in 1..Len(stack[t]) : /\ stack[t][k].pc \in {"boxed", "tail"}
                             /\ stack[t][k].e.with.uid = uid }

RECURSIVE Counted(_, _)
Counted(with, k) == IF k = 0 THEN with ELSE count(Counted(with, k - 1))

C20_InstanceReuse ==
  /\ \A k \in 1..made[1] : Cardinality(HeldInQueues(1, <<1, k>>))
                            + Cardinality(HeldInFrames(1, <<1, k>>)) <= 1
  /\ LET s == sc[1]
         q == Queue(Cell(1), IdOf(s.f))
     IN (/\ s.ok /\ s.cleared = "no" /\ InTest(1)
         /\ \A i \in 1..Len(s.adds) : s.adds[i].kind = "count") =>
          \A i \in 1..Len(q) :
            q[i].with.kind = "count" =>
              q[i].with = Counted(Closure(q[i].with.uid, "count", s.f, q[i].with.O),
                                  Uses(s, q[i].with.uid))

\* an unlimited counting behaviour back in the queue after two uses
C20_Witness ==
  /\ InTest(1)
  /\ sc[1].ok /\ sc[1].cleared = "no"
  /\ \A i \in 1..Len(sc[1].adds) : sc[1].adds[i].kind = "count"
  /\ Uses(sc[1], <<1, 1>>) = 2
  /\ \E i \in 1..Len(Queue(Cell(1), IdOf(sc[1].f))) :
       LET e == Queue(Cell(1), IdOf(sc[1].f))[i]
       IN e.with.uid = <<1, 1>> /\ e.with.kind = "count" /\ e.repeat = None
          /\ e.with.c = CapturedInit - 2

(***************************************************************************)
(* The instrumentation pass.                                               *)
(***************************************************************************)
Expanded == expansion # NoExpansion
Rewritten == Expanded /\ expansion.output.ok

IsPrologue(st) == st.tag = "prologue"
NotPrologue(st) == st.tag # "prologue"

\* C21: item-kind dispatch of the instrumentation pass. After the outer
\* attributes, every annotated trait definition is rewritten by the trait
\* rule, every impl block by the impl rule and every free function by the
\* function rule, for every legal combination of leading visibility (none,
\* pub, pub(crate) / pub(in ..)) and unsafe; no legal trait or impl is handed
\* to the function rule and rejected as a parse failure.
C21_Dispatch ==
  Expanded =>
    /\ expansion.output.rule = expansion.input.kind
    /\ expansion.output.ok

\* what the dispatch does: the only units not rewritten by their own rule are
\* the trait definitions whose `trait` keyword is not the token right after an
\* optional leading `unsafe` or `pub`; they go to the function rule and fail
C21_DispatchTwoTokens ==
  Expanded =>
    LET u == expansion.input
        far == u.kind = "trait" /\ (u.vis.tag = "Restricted" \/ (u.vis.tag = "Public" /\ u.unsafety))
    IN IF far THEN ~expansion.output.ok /\ expansion.output.rule = "fn"
              ELSE expansion.output.ok /\ expansion.output.rule = u.kind

\* the item without the statements the macro inserted
Strip(item) ==
  [item EXCEPT !.stmts = SelectSeq(@, NotPrologue),
               !.items = [k \in DOMAIN @ |-> [@[k] EXCEPT !.stmts = SelectSeq(@, NotPrologue)]]]

\* C22: structure preservation. For every instrumented unit the output
\* differs from the input only by the inserted prologue at the start of each
\* instrumented body; the unit's attributes (content and order), its
\* visibility (private, pub and restricted forms such as pub(crate)) and all
\* signatures are emitted unchanged.
C22_StructurePreserved ==
  Rewritten =>
    /\ expansion.output.item.attrs = expansion.input.attrs
    /\ expansion.output.item.vis = expansion.input.vis
    /\ Strip(expansion.output.item) = expansion.input

\* what is preserved: everything but a restricted visibility of a free
\* function, which is emitted as pub
C22_PreservedButRestricted ==
  Rewritten =>
    /\ expansion.output.item.attrs = expansion.input.attrs
    /\ Strip([expansion.output.item EXCEPT !.vis = expansion.input.vis]) = expansion.input
    /\ expansion.output.item.vis =
         IF expansion.input.kind = "fn" /\ expansion.input.vis.tag = "Restricted"
           THEN Public ELSE expansion.input.vis

\* the declared generic parameters as generic arguments
Reapplied(params) ==
  [k \in DOMAIN params |-> GenericArg(params[k].kind = "Lifetime", params[k].ident)]

\* the qualified, generic-applied reference to a body of the unit u with
\* signature sig
QualifiedReference(u, sig) ==
  [self_type |-> CASE u.kind = "fn" -> <<>>
                   [] u.kind = "impl" /\ u.trait_ = None -> <<"Self">>
                   [] u.kind = "impl" /\ u.trait_ # None -> <<"<", "Self", "as", u.trait_[1], ">">>
                   [] u.kind = "trait" -> <<"<", "Self", "as", u.ident, ">">>,
   name |-> sig.ident,
   generics |-> Reapplied(sig.generics)]

RefersAs(st, r) ==
  st.self_type = r.self_type /\ st.name = r.name /\ st.generics = r.generics

\* the prologues of the output item, each with the signature of its body
PrologueSites(item) ==
  { <<item.stmts[k], item.sig>> : k \in { k \in DOMAIN item.stmts : IsPrologue(item.stmts[k]) } }
  \cup UNION { { <<item.items[i].stmts[k], item.items[i].sig>> :
                   k \in { k \in DOMAIN item.items[i].stmts : IsPrologue(item.items[i].stmts[k]) } } :
               i \in DOMAIN item.items }

\* C23: qualified reference and generics in the prologue. The callable
\* reference used for mock_exists and call_mock is the bare name for a free
\* function, Self::name for an inherent method and <Self as Trait>::name for
\* a trait-impl method or a trait default method; and for every one of these
\* four shapes the function's declared generic parameters (type, lifetime,
\* const) are re-applied explicitly to that reference.
C23_QualifiedGenerics ==
  Rewritten =>
    \A site \in PrologueSites(expansion.output.item) :
      RefersAs(site[1], QualifiedReference(expansion.input, site[2]))

\* what the prologue refers to: that qualification, with no
\* generic arguments for a free function, and for a method the ident of each
\* parameter, a lifetime's without its apostrophe
C23_QualifiedIdents ==
  Rewritten =>
    \A site \in PrologueSites(expansion.output.item) :
      /\ site[1].self_type = QualifiedReference(expansion.input, site[2]).self_type
      /\ site[1].name = site[2].ident
      /\ site[1].generics =
           IF expansion.input.kind = "fn" THEN <<>>
           ELSE [k \in DOMAIN site[2].generics |->
                   GenericArg(FALSE, site[2].generics[k].ident)]

\* the body `after` is the body `before` behind exactly one prologue
Prefixed(before, after) ==
  /\ after # <<>>
  /\ IsPrologue(after[1])
  /\ Tail(after) = before
  /\ \A k \in DOMAIN before : NotPrologue(before[k])

\* C24: instrumentation coverage. Where the impl rule rewrites an impl
\* block, every method of the block has the prologue; where the trait rule
\* rewrites a trait definition, every method with a default body has it, and
\* every method without a default body and every non-method item is left as
\* it was; each instrumented body has exactly one prologue, before all the
\* original statements, which keep their order.
C24_Coverage ==
  (Rewritten /\ expansion.input.kind \in {"impl", "trait"}) =>
    LET before == expansion.input.items
        after == expansion.output.item.items
    IN /\ DOMAIN after = DOMAIN before
       /\ \A k \in DOMAIN before :
            IF before[k].tag = "Fn" /\ (expansion.input.kind = "impl" \/ before[k].default)
              THEN /\ Prefixed(before[k].stmts, after[k].stmts)
                   /\ [after[k] EXCEPT !.stmts = before[k].stmts] = before[k]
              ELSE after[k] = before[k]

\* a trait definition with a default method of two statements and a method
\* without a default body has been rewritten
C24_Witness ==
  /\ Rewritten
  /\ expansion.input.kind = "trait"
  /\ Len(expansion.input.items) = 2
  /\ expansion.input.items[1].tag = "Fn" /\ expansion.input.items[1].default
  /\ Len(expansion.input.items[1].stmts) = 2
  /\ expansion.input.items[2].tag = "Fn" /\ ~expansion.input.items[2].default
  /\ Len(expansion.output.item.items[1].stmts) = 3
  /\ expansion.output.item.items[2].stmts = <<>>

====
